---- MODULE Spec2Model ----
(***************************************************************************)
(* Model of src/main.py: the /send-email handler (send_email), the proxy   *)
(* egress probe (get_proxy_ip, get_external_ip), create_smtp_connection    *)
(* and the proxy_context manager that swaps the process-wide socket        *)
(* factory (socket.socket) and the PySocks default proxy.                  *)
(*                                                                         *)
(* Jobs are threads of control over one process: socket.socket and the     *)
(* default proxy are module globals, every job has its own locals.  A step *)
(* of a job is one statement (or one library call) of the source.          *)
(* Optional values (None or a value) are sets with at most one element.    *)
(***************************************************************************)
EXTENDS Integers, Sequences, FiniteSets, TLC

\* Number of jobs in flight over the same process.
NumJobs == 2

\* The four (host, port) pairs of `services` in get_external_ip.
NumServices == 4

\* The only port on which send_email issues STARTTLS.
StartTlsPort == 587

Jobs == 1 .. NumJobs

VARIABLES
    sockFactory,      \* socket.socket: "orig" (the real class) or "socks" (socks.socksocket)
    defaultProxy,     \* the PySocks default proxy: {} or {proxy config}
    pc,               \* each job's position in send_email
    req,              \* each job's EmailRequest
    log_entry,        \* each job's log_entry dict (a function from keys to values)
    use_proxy,        \* send_email's local use_proxy
    proxy_ip,         \* get_proxy_ip's local proxy_ip: {} or {address}
    methods_used,     \* get_proxy_ip's local methods_used
    svc,              \* index of the service get_external_ip is trying
    ctxProxy,         \* argument of the job's running proxy_context
    ctxRet,           \* who entered the job's running proxy_context: "probe" or "smtp"
    original_socket,  \* proxy_context's local original_socket
    message_id,       \* send_email's local message_id: {} or {[uuid, host]}
    server,           \* the SMTP transport: "none", "open" or "closed"
    exc,              \* the exception in flight in send_email's try block: {} or {text}
    result,           \* what send_email returned: {} or {response dict}
    probes,           \* history: the methods the running get_proxy_ip has tried
    ops,              \* history: the operations the job invoked, in order
    lastReply,        \* outcome of the SMTP command the job issued last
    does_esmtp,       \* the SMTP object knows the server's extensions (EHLO accepted)
    sent,             \* history: server.sendmail returned without error
    connRoute,        \* the route of the connection the running create_smtp_connection made
    uuidCount,        \* history: number of uuid.uuid4() calls of the job
    deadlinePassed    \* environment: the job's overall deadline has elapsed

vars == << sockFactory, defaultProxy, pc, req, log_entry, use_proxy, proxy_ip,
           methods_used, svc, ctxProxy, ctxRet, original_socket, message_id,
           server, exc, result, probes, ops, lastReply, does_esmtp, sent,
           connRoute, uuidCount, deadlinePassed >>

globals == << sockFactory, defaultProxy >>
probeLocals == << proxy_ip, methods_used, svc, probes >>
ctxLocals == << ctxProxy, ctxRet, original_socket >>
smtpLocals == << message_id, server, exc, lastReply, does_esmtp, sent, connRoute,
                uuidCount >>
jobLocals == << req, log_entry, use_proxy, result, ops, probeLocals, ctxLocals, smtpLocals >>

-----------------------------------------------------------------------------
(* Values *)

\* Network addresses as a remote peer or the local stack reports them.
SmtpAddr == "smtp-addr"
LocalAddr == "local-addr"
ClientHost == "client-addr"
SmtpHost == "smtp.example.com"

\* The address a remote peer observes for connections made through proxy p.
EgressAddr(p) == "egress-of-" \o p.host

\* class ProxyConfig; the proxy a job may name is the job's own.
ProxyOf(j) == [host |-> "proxy" \o ToString(j), port |-> 1080, hasAuth |-> TRUE]

\* The proxyConfig values of a request: absent, present with host "", present.
ProxyChoices(j) ==
    { {}, {[host |-> "", port |-> 1080, hasAuth |-> FALSE]}, {ProxyOf(j)} }

\* class SMTPConfig: secure and port.
SmtpChoices ==
    { [secure |-> TRUE, port |-> StartTlsPort],
      [secure |-> FALSE, port |-> StartTlsPort],
      [secure |-> TRUE, port |-> 465] }

\* class EmailRequest: the requests job j may carry. A request that names a
\* proxy is paired with the STARTTLS target, whose session has every stage; the
\* requests without a proxy are paired with every target.
Requests(j) ==
    { r \in [proxyConfig : ProxyChoices(j), smtpConfig : SmtpChoices] :
        r.proxyConfig = {ProxyOf(j)} =>
            (r.smtpConfig.secure /\ r.smtpConfig.port = StartTlsPort) }

\* d[k] = v on a dict.
Put(d, k, v) == [x \in DOMAIN d \cup {k} |-> IF x = k THEN v ELSE d[x]]

\* The element of a one-element set.
The(s) == CHOOSE x \in s : TRUE

\* getattr(req.proxyConfig, name, None) for host and port, and the hasAuth flag.
LoggedProxyConfig(p) ==
    IF p = {} THEN [host |-> {}, port |-> {}, hasAuth |-> FALSE]
    ELSE [host |-> {The(p).host}, port |-> {The(p).port}, hasAuth |-> The(p).hasAuth]

\* The log_entry literal at the top of send_email.
InitialLog(r) ==
    [k \in {"originalIp", "beforeProxyIp", "proxyConfig"} |->
        IF k = "proxyConfig" THEN LoggedProxyConfig(r.proxyConfig) ELSE ClientHost]

\* `req.proxyConfig and req.proxyConfig.host`
ProxyConfigured(r) == r.proxyConfig # {} /\ The(r.proxyConfig).host # ""

\* How a socket created now is routed: socket.socket() builds a socksocket only
\* while the factory is patched, and a socksocket copies the default proxy.
Route == IF sockFactory = "socks" THEN defaultProxy ELSE {}

\* s.getpeername()[0] after s.connect((smtp_host, smtp_port)): the peer named in
\* the connect call; a socksocket reports the destination, not the proxy.
Peername(route) == SmtpAddr

\* The address an external what-is-my-ip service sees and sends back.
Observed(route) == IF route = {} THEN LocalAddr ELSE EgressAddr(The(route))

\* s.getsockname()[0]: the local end of the socket.
Sockname(route) == LocalAddr

-----------------------------------------------------------------------------
(* State after start-up *)

Init ==
    /\ sockFactory = "orig"
    /\ defaultProxy = {}
    /\ pc = [j \in Jobs |-> "idle"]
    /\ req \in [Jobs -> {{}}]
    /\ log_entry = [j \in Jobs |-> << >>]
    /\ use_proxy = [j \in Jobs |-> FALSE]
    /\ proxy_ip = [j \in Jobs |-> {}]
    /\ methods_used = [j \in Jobs |-> << >>]
    /\ svc = [j \in Jobs |-> 1]
    /\ ctxProxy = [j \in Jobs |-> {}]
    /\ ctxRet = [j \in Jobs |-> "probe"]
    /\ original_socket = [j \in Jobs |-> "orig"]
    /\ message_id = [j \in Jobs |-> {}]
    /\ server = [j \in Jobs |-> "none"]
    /\ exc = [j \in Jobs |-> {}]
    /\ result = [j \in Jobs |-> {}]
    /\ probes = [j \in Jobs |-> << >>]
    /\ ops = [j \in Jobs |-> << >>]
    /\ lastReply = [j \in Jobs |-> "none"]
    /\ does_esmtp = [j \in Jobs |-> FALSE]
    /\ sent = [j \in Jobs |-> FALSE]
    /\ connRoute = [j \in Jobs |-> {}]
    /\ uuidCount = [j \in Jobs |-> 0]
    /\ deadlinePassed = [j \in Jobs |-> FALSE]

-----------------------------------------------------------------------------------------------------------------------------------------------------
(* send_email, first part: log_entry and the proxy decision *)

\* The request arrives: log_entry is initialised and the proxy branch is taken.
\* With a proxy configured the job calls get_proxy_ip, which enters
\* proxy_context(proxy_config); otherwise the direct branch fills the log.
SendEmailBegin(j) ==
    /\ pc[j] = "idle"
    /\ \E r \in Requests(j) :
        /\ req' = [req EXCEPT ![j] = {r}]
        /\ IF ProxyConfigured(r)
           THEN /\ log_entry' = [log_entry EXCEPT ![j] = InitialLog(r)]
                /\ ctxProxy' = [ctxProxy EXCEPT ![j] = r.proxyConfig]
                /\ ctxRet' = [ctxRet EXCEPT ![j] = "probe"]
                /\ ops' = [ops EXCEPT ![j] = Append(@, "get_proxy_ip")]
                /\ pc' = [pc EXCEPT ![j] = "ctx_save"]
           ELSE /\ log_entry' = [log_entry EXCEPT ![j] =
                       Put(Put(InitialLog(r), "noProxyConfigured", TRUE),
                           "connectionType", "direct")]
                /\ pc' = [pc EXCEPT ![j] = "msgid"]
                /\ UNCHANGED << ctxProxy, ctxRet, ops >>
    /\ UNCHANGED << globals, use_proxy, result, probeLocals, original_socket,
                    smtpLocals, deadlinePassed >>

-----------------------------------------------------------------------------
(* proxy_context *)

\* Where the body of the running proxy_context starts.
BodyPc(j) == IF ctxRet[j] = "probe" THEN "m1" ELSE "connect"

\* original_socket = socket.socket
CtxSave(j) ==
    /\ pc[j] = "ctx_save"
    /\ original_socket' = [original_socket EXCEPT ![j] = sockFactory]
    /\ pc' = [pc EXCEPT ![j] = IF ctxProxy[j] # {} THEN "ctx_setproxy" ELSE BodyPc(j)]
    /\ UNCHANGED << globals, req, log_entry, use_proxy, result, ops, probeLocals,
                    ctxProxy, ctxRet, smtpLocals, deadlinePassed >>

\* socks.setdefaultproxy(socks.SOCKS5, host, port, True, username, password)
CtxSetProxy(j) ==
    /\ pc[j] = "ctx_setproxy"
    /\ defaultProxy' = ctxProxy[j]
    /\ pc' = [pc EXCEPT ![j] = "ctx_patch"]
    /\ UNCHANGED << sockFactory, jobLocals, deadlinePassed >>

\* socket.socket = socks.socksocket
CtxPatch(j) ==
    /\ pc[j] = "ctx_patch"
    /\ sockFactory' = "socks"
    /\ pc' = [pc EXCEPT ![j] = BodyPc(j)]
    /\ UNCHANGED << defaultProxy, jobLocals, deadlinePassed >>

\* finally: socks.setdefaultproxy(None)
CtxUnset(j) ==
    /\ pc[j] = "ctx_unset"
    /\ defaultProxy' = {}
    /\ pc' = [pc EXCEPT ![j] = "ctx_restore"]
    /\ UNCHANGED << sockFactory, jobLocals, deadlinePassed >>

\* Variant: a failed connect is not caught by send_email and leaves it.
M_AfterCtx_Uncaught(j) ==
    IF ctxRet[j] = "probe" THEN "gp_ret"
    ELSE IF exc[j] # {} THEN "raised" ELSE "ehlo"

\* Where control goes when the running proxy_context is left.
AfterCtx(j) ==
    IF ctxRet[j] = "probe" THEN "gp_ret"
    ELSE IF exc[j] # {} THEN "except" ELSE "ehlo"

\* What socket.socket is set to when proxy_context is left.
RestoredSocket(saved) == saved

\* finally: socket.socket = original_socket; the context's locals end here.
CtxRestore(j) ==
    /\ pc[j] = "ctx_restore"
    /\ sockFactory' = RestoredSocket(original_socket[j])
    /\ pc' = [pc EXCEPT ![j] = AfterCtx(j)]
    /\ original_socket' = [original_socket EXCEPT ![j] = "orig"]
    /\ ctxProxy' = [ctxProxy EXCEPT ![j] = {}]
    /\ connRoute' = [connRoute EXCEPT ![j] = {}]
    /\ UNCHANGED << defaultProxy, req, log_entry, use_proxy, result, ops, probeLocals,
                    ctxRet, message_id, server, exc, lastReply, does_esmtp, sent, uuidCount,
                    deadlinePassed >>

-----------------------------------------------------------------------------
(* get_proxy_ip and get_external_ip, run inside proxy_context(proxy_config) *)

\* Variant: the later methods run whether or not an earlier one found an address.
M_AfterMethod_RunsAll(found, next) == next

\* Where get_proxy_ip goes after a method: `if not proxy_ip` guards methods 2
\* and 3, so the first address found ends the search.
AfterMethod(found, next) == IF found THEN "ctx_unset" ELSE next

\* Method 1: socket.socket(...).connect((smtp_host, smtp_port)); getpeername().
\* A failure is caught and logged; a success skips methods 2 and 3.
Method1(j) ==
    /\ pc[j] = "m1"
    /\ probes' = [probes EXCEPT ![j] = Append(@, "smtp_peername")]
    /\ \E ok \in BOOLEAN :
        IF ok
        THEN /\ proxy_ip' = [proxy_ip EXCEPT ![j] = {Peername(Route)}]
             /\ methods_used' = [methods_used EXCEPT ![j] = Append(@, "smtp_peername")]
             /\ pc' = [pc EXCEPT ![j] = AfterMethod(TRUE, "ext")]
        ELSE /\ pc' = [pc EXCEPT ![j] = AfterMethod(FALSE, "ext")]
             /\ UNCHANGED << proxy_ip, methods_used >>
    /\ UNCHANGED << globals, req, log_entry, use_proxy, result, ops, svc, ctxLocals,
                    smtpLocals, deadlinePassed >>

\* Method 2: one turn of the loop of get_external_ip over `services`. The first
\* service that answers with an address ends the loop; when none does,
\* get_external_ip returns None and method 3 runs.
ExternalService(j) ==
    /\ pc[j] = "ext"
    /\ probes' = [probes EXCEPT ![j] = Append(@, "external_service")]
    /\ \E ok \in BOOLEAN :
        IF ok
        THEN /\ proxy_ip' = [proxy_ip EXCEPT ![j] = {Observed(Route)}]
             /\ methods_used' = [methods_used EXCEPT ![j] = Append(@, "external_service")]
             /\ pc' = [pc EXCEPT ![j] = AfterMethod(TRUE, "m3")]
             /\ UNCHANGED svc
        ELSE /\ svc' = [svc EXCEPT ![j] = @ + 1]
             /\ pc' = [pc EXCEPT ![j] = IF svc[j] < NumServices THEN "ext"
                                        ELSE AfterMethod(FALSE, "m3")]
             /\ UNCHANGED << proxy_ip, methods_used >>
    /\ UNCHANGED << globals, req, log_entry, use_proxy, result, ops, ctxLocals,
                    smtpLocals, deadlinePassed >>

\* Method 3: connect to 8.8.8.8:53 and take getsockname(); a failure is passed over.
Method3(j) ==
    /\ pc[j] = "m3"
    /\ probes' = [probes EXCEPT ![j] = Append(@, "local_socket")]
    /\ \E ok \in BOOLEAN :
        IF ok
        THEN /\ proxy_ip' = [proxy_ip EXCEPT ![j] = {Sockname(Route)}]
             /\ methods_used' = [methods_used EXCEPT ![j] = Append(@, "local_socket")]
        ELSE UNCHANGED << proxy_ip, methods_used >>
    /\ pc' = [pc EXCEPT ![j] = "ctx_unset"]
    /\ UNCHANGED << globals, req, log_entry, use_proxy, result, ops, svc, ctxLocals,
                    smtpLocals, deadlinePassed >>

\* The dict get_proxy_ip returns.
ProxyIpInfo(ip, methods) ==
    IF ip # {}
    THEN [success |-> TRUE, proxyIP |-> The(ip), methodsUsed |-> methods]
    ELSE [success |-> FALSE, error |-> "Could not determine proxy IP using any method"]

\* log_entry after the `if proxy_ip_info["success"]` statement of send_email.
LogAfterProxy(l, info) ==
    IF info.success
    THEN Put(Put(Put(Put(l, "afterProxyIp", info.proxyIP),
                     "proxyMethodsUsed", info.methodsUsed),
                 "proxyUsed", TRUE),
             "connectionType", "proxy")
    ELSE Put(Put(Put(l, "proxyError", info.error),
                 "fallbackToDirect", TRUE),
             "connectionType", "direct")

\* get_proxy_ip returns (its locals end here); send_email records the outcome
\* and sets use_proxy.
ProxyResult(j) ==
    /\ pc[j] = "gp_ret"
    /\ LET info == ProxyIpInfo(proxy_ip[j], methods_used[j])
       IN /\ log_entry' = [log_entry EXCEPT ![j] = LogAfterProxy(@, info)]
          /\ use_proxy' = [use_proxy EXCEPT ![j] = info.success]
    /\ proxy_ip' = [proxy_ip EXCEPT ![j] = {}]
    /\ methods_used' = [methods_used EXCEPT ![j] = << >>]
    /\ svc' = [svc EXCEPT ![j] = 1]
    /\ probes' = [probes EXCEPT ![j] = << >>]
    /\ pc' = [pc EXCEPT ![j] = "msgid"]
    /\ UNCHANGED << globals, req, result, ops, ctxLocals, smtpLocals, deadlinePassed >>

-----------------------------------------------------------------------------
(* send_email, second part: the message and the SMTP session *)

\* f"<{uuid.uuid4()}@{req.smtpConfig.host}>"; the uuid is fresh per call.
NewMessageId(j, n) == [uuid |-> << j, n >>, host |-> SmtpHost]

\* The argument create_smtp_connection passes to proxy_context.
ConnectionProxy(r, use) == IF use THEN r.proxyConfig ELSE {}

\* message_id and the message are built; create_smtp_connection is called and
\* enters proxy_context(req.proxyConfig if use_proxy else None).
BuildMessage(j) ==
    /\ pc[j] = "msgid"
    /\ message_id' = [message_id EXCEPT ![j] = {NewMessageId(j, uuidCount[j] + 1)}]
    /\ uuidCount' = [uuidCount EXCEPT ![j] = @ + 1]
    /\ ctxProxy' = [ctxProxy EXCEPT ![j] = ConnectionProxy(The(req[j]), use_proxy[j])]
    /\ ctxRet' = [ctxRet EXCEPT ![j] = "smtp"]
    /\ pc' = [pc EXCEPT ![j] = "ctx_save"]
    /\ UNCHANGED << globals, req, log_entry, use_proxy, result, ops, probeLocals,
                    original_socket, server, exc, lastReply, does_esmtp, sent, connRoute,
                    deadlinePassed >>

\* smtplib.SMTP(host, port, timeout=20) inside proxy_context: the constructor
\* connects through whatever socket.socket and the default proxy are right now.
\* A failed constructor leaves no server object and raises.
Connect(j) ==
    /\ pc[j] = "connect"
    /\ connRoute' = [connRoute EXCEPT ![j] = {Route}]
    /\ ops' = [ops EXCEPT ![j] = Append(@, "connect")]
    /\ \E ok \in BOOLEAN :
        IF ok
        THEN /\ server' = [server EXCEPT ![j] = "open"]
             /\ UNCHANGED exc
        ELSE /\ exc' = [exc EXCEPT ![j] = {"connect failed"}]
             /\ UNCHANGED server
    /\ pc' = [pc EXCEPT ![j] = "ctx_unset"]
    /\ UNCHANGED << globals, req, log_entry, use_proxy, result, probeLocals, ctxLocals,
                    message_id, lastReply, does_esmtp, sent, uuidCount, deadlinePassed >>

\* Variant: STARTTLS whenever secure is set, whatever the port.
M_WantsStartTls_SecureOnly(r) == r.smtpConfig.secure

\* `req.smtpConfig.secure and req.smtpConfig.port == 587`
WantsStartTls(r) == r.smtpConfig.secure /\ r.smtpConfig.port = StartTlsPort

\* Where control goes after server.ehlo() returned: smtplib's ehlo() returns the
\* reply, so a rejected EHLO is no exception and the session goes on.
AfterEhlo(at, r) == IF at = "ehlo" /\ WantsStartTls(r) THEN "starttls" ELSE "noop"

\* smtplib's does_esmtp after ehlo(): the extensions are known only when the
\* server accepted EHLO with 250.
EsmtpAfterEhlo(out) == out = "ok"

\* The outcomes of a command that needs an extension (STARTTLS, AUTH): smtplib
\* raises SMTPNotSupportedError when the extension was not advertised, and no
\* extension is known after a rejected EHLO.
ExtensionOutcomes(known) == IF known THEN BOOLEAN ELSE {FALSE}

\* server.ehlo(), the first one and the one after STARTTLS. Only a lost
\* connection raises.
Ehlo(j) ==
    /\ pc[j] \in {"ehlo", "ehlo2"}
    /\ ops' = [ops EXCEPT ![j] = Append(@, "ehlo")]
    /\ \E out \in {"ok", "rejected", "fail"} :
        /\ lastReply' = [lastReply EXCEPT ![j] = out]
        /\ does_esmtp' = [does_esmtp EXCEPT ![j] = EsmtpAfterEhlo(out)]
        /\ IF out = "fail"
           THEN /\ exc' = [exc EXCEPT ![j] = {"ehlo failed"}]
                /\ pc' = [pc EXCEPT ![j] = "quit"]
           ELSE /\ pc' = [pc EXCEPT ![j] = AfterEhlo(pc[j], The(req[j]))]
                /\ UNCHANGED exc
    /\ UNCHANGED << globals, req, log_entry, use_proxy, result, probeLocals, ctxLocals,
                    message_id, server, sent, connRoute, uuidCount, deadlinePassed >>

\* Variant: the session goes on to the second EHLO although STARTTLS failed.
M_AfterStartTls_Continue(ok) == "ehlo2"

\* Where control goes after server.starttls(): a failure raises out of the try block.
AfterStartTls(ok) == IF ok THEN "ehlo2" ELSE "quit"

\* server.starttls(): smtplib forgets the extensions learnt before the TLS
\* handshake, which is why EHLO is repeated.
StartTls(j) ==
    /\ pc[j] = "starttls"
    /\ ops' = [ops EXCEPT ![j] = Append(@, "starttls")]
    /\ does_esmtp' = [does_esmtp EXCEPT ![j] = FALSE]
    /\ \E ok \in ExtensionOutcomes(does_esmtp[j]) :
        /\ lastReply' = [lastReply EXCEPT ![j] = IF ok THEN "ok" ELSE "fail"]
        /\ exc' = [exc EXCEPT ![j] = IF ok THEN {} ELSE {"starttls failed"}]
        /\ pc' = [pc EXCEPT ![j] = AfterStartTls(ok)]
    /\ UNCHANGED << globals, req, log_entry, use_proxy, result, probeLocals, ctxLocals,
                    message_id, server, sent, connRoute, uuidCount, deadlinePassed >>

\* log_entry after the inner try/except around server.noop().
LogAfterNoop(l, ok) ==
    IF ok THEN Put(l, "connectionVerified", TRUE)
    ELSE Put(Put(l, "connectionVerified", FALSE), "verifyError", "noop failed")

\* Variant: the NOOP probe is a gate, a failed probe ends the session.
M_AfterNoop_Gate(ok) == IF ok THEN "login" ELSE "quit"

\* Where control goes after the NOOP probe: its exception is caught on the spot.
AfterNoop(ok) == "login"

\* try: server.noop() ... except Exception as verify_error: ...
Noop(j) ==
    /\ pc[j] = "noop"
    /\ ops' = [ops EXCEPT ![j] = Append(@, "noop")]
    /\ \E ok \in BOOLEAN :
        /\ lastReply' = [lastReply EXCEPT ![j] = IF ok THEN "ok" ELSE "fail"]
        /\ log_entry' = [log_entry EXCEPT ![j] = LogAfterNoop(@, ok)]
        /\ pc' = [pc EXCEPT ![j] = AfterNoop(ok)]
    /\ UNCHANGED << globals, req, use_proxy, result, probeLocals, ctxLocals,
                    message_id, server, exc, does_esmtp, sent, connRoute, uuidCount, deadlinePassed >>

\* Variant: a rejected login is passed over like a failed NOOP.
M_AfterLogin_Swallowed(ok) == "sendmail"

\* Variant: a rejected login reaches the except block without the finally block.
M_AfterLogin_NoFinally(ok) == IF ok THEN "sendmail" ELSE "except"

\* Where control goes after server.login(): a rejection raises out of the try block.
AfterLogin(ok) == IF ok THEN "sendmail" ELSE "quit"

\* server.login(user, password)
Login(j) ==
    /\ pc[j] = "login"
    /\ ops' = [ops EXCEPT ![j] = Append(@, "login")]
    /\ \E ok \in ExtensionOutcomes(does_esmtp[j]) :
        /\ lastReply' = [lastReply EXCEPT ![j] = IF ok THEN "ok" ELSE "fail"]
        /\ exc' = [exc EXCEPT ![j] = IF ok THEN {} ELSE {"login rejected"}]
        /\ pc' = [pc EXCEPT ![j] = AfterLogin(ok)]
    /\ UNCHANGED << globals, req, log_entry, use_proxy, result, probeLocals, ctxLocals,
                    message_id, server, does_esmtp, sent, connRoute, uuidCount, deadlinePassed >>

\* log_entry after a successful sendmail.
LogAfterSend(l) == Put(Put(l, "finalOutcome", "success"), "smtpSuccess", TRUE)

\* server.sendmail(from_addr, [to_addr], message) and the statements after it.
Sendmail(j) ==
    /\ pc[j] = "sendmail"
    /\ ops' = [ops EXCEPT ![j] = Append(@, "sendmail")]
    /\ \E ok \in BOOLEAN :
        /\ lastReply' = [lastReply EXCEPT ![j] = IF ok THEN "ok" ELSE "fail"]
        /\ sent' = [sent EXCEPT ![j] = ok]
        /\ IF ok
           THEN /\ log_entry' = [log_entry EXCEPT ![j] = LogAfterSend(@)]
                /\ UNCHANGED exc
           ELSE /\ exc' = [exc EXCEPT ![j] = {"sendmail failed"}]
                /\ UNCHANGED log_entry
    /\ pc' = [pc EXCEPT ![j] = "quit"]
    /\ UNCHANGED << globals, req, use_proxy, result, probeLocals, ctxLocals,
                    message_id, server, does_esmtp, connRoute, uuidCount, deadlinePassed >>

\* The dict send_email returns from its try block.
SuccessResult(mid, l) == [success |-> TRUE, messageId |-> mid, logs |-> l]

\* The transport after server.quit(): smtplib closes the socket when QUIT is
\* answered and also when sending it or reading the reply fails.
AfterQuit(ok) == "closed"

\* Variant: a failed QUIT raises out of the finally block.
M_QuitFault_Raised(ok) == IF ok THEN {} ELSE {"quit failed"}

\* The exception server.quit() adds to the one in flight: none, the finally
\* block catches and logs whatever quit() raises.
QuitFault(ok) == {}

\* finally: if server: try: server.quit() except Exception: (logged). Without
\* an exception in flight the function then returns the success dict and its
\* locals end.
Quit(j) ==
    /\ pc[j] = "quit"
    /\ server[j] = "open"
    /\ ops' = [ops EXCEPT ![j] = Append(@, "quit")]
    /\ \E ok \in BOOLEAN :
        /\ lastReply' = [lastReply EXCEPT ![j] = IF ok THEN "ok" ELSE "fail"]
        /\ server' = [server EXCEPT ![j] = AfterQuit(ok)]
        /\ exc' = [exc EXCEPT ![j] = IF QuitFault(ok) # {} THEN QuitFault(ok) ELSE @]
    /\ does_esmtp' = [does_esmtp EXCEPT ![j] = FALSE]
    /\ IF exc'[j] = {}
       THEN /\ result' = [result EXCEPT ![j] = {SuccessResult(The(message_id[j]), log_entry[j])}]
            /\ message_id' = [message_id EXCEPT ![j] = {}]
            /\ use_proxy' = [use_proxy EXCEPT ![j] = FALSE]
            /\ pc' = [pc EXCEPT ![j] = "done"]
       ELSE /\ pc' = [pc EXCEPT ![j] = "except"]
            /\ UNCHANGED << result, message_id, use_proxy >>
    /\ UNCHANGED << globals, req, log_entry, probeLocals, ctxLocals, sent,
                    connRoute, uuidCount, deadlinePassed >>

\* Variant: the except block starts a fresh dict instead of adding to log_entry.
M_LogAfterError_Fresh(l, e) ==
    [k \in {"smtpSuccess", "smtpError", "finalOutcome"} |->
        IF k = "smtpSuccess" THEN FALSE ELSE IF k = "smtpError" THEN e ELSE "error"]

\* log_entry after the outer `except Exception as e`.
LogAfterError(l, e) ==
    Put(Put(Put(l, "smtpSuccess", FALSE), "smtpError", e), "finalOutcome", "error")

\* Variant: the except block returns the message id as well.
M_ErrorResult_WithId(e, l) ==
    [success |-> FALSE, error |-> e, messageId |-> [uuid |-> << >>, host |-> SmtpHost],
     logs |-> l]

\* The dict send_email returns from its except block.
ErrorResult(e, l) == [success |-> FALSE, error |-> e, logs |-> l]

\* except Exception as e: the fault becomes a success:false result; the
\* function returns and its locals end.
Except(j) ==
    /\ pc[j] = "except"
    /\ LET e == The(exc[j])
           l == LogAfterError(log_entry[j], e)
       IN /\ log_entry' = [log_entry EXCEPT ![j] = l]
          /\ result' = [result EXCEPT ![j] = {ErrorResult(e, l)}]
    /\ exc' = [exc EXCEPT ![j] = {}]
    /\ message_id' = [message_id EXCEPT ![j] = {}]
    /\ use_proxy' = [use_proxy EXCEPT ![j] = FALSE]
    /\ pc' = [pc EXCEPT ![j] = "done"]
    /\ UNCHANGED << globals, req, ops, probeLocals, ctxLocals, server, lastReply,
                    does_esmtp, sent, connRoute, uuidCount, deadlinePassed >>

-----------------------------------------------------------------------------
(* Environment: time *)

\* The job's overall deadline elapses while the job is in flight. send_email
\* reads no clock: nothing in the job reacts to it.
DeadlineElapses(j) ==
    /\ pc[j] \notin {"idle", "done"}
    /\ ~deadlinePassed[j]
    /\ deadlinePassed' = [deadlinePassed EXCEPT ![j] = TRUE]
    /\ UNCHANGED << globals, pc, jobLocals >>

-----------------------------------------------------------------------------
(* Specifications *)

JobStep(j) ==
    \/ SendEmailBegin(j)
    \/ CtxSave(j)
    \/ CtxSetProxy(j)
    \/ CtxPatch(j)
    \/ Method1(j)
    \/ ExternalService(j)
    \/ Method3(j)
    \/ CtxUnset(j)
    \/ CtxRestore(j)
    \/ ProxyResult(j)
    \/ BuildMessage(j)
    \/ Connect(j)
    \/ Ehlo(j)
    \/ StartTls(j)
    \/ Noop(j)
    \/ Login(j)
    \/ Sendmail(j)
    \/ Quit(j)
    \/ Except(j)

Next == \E j \in Jobs : JobStep(j)

\* Jobs as threads over one process, in any interleaving of their steps.
Spec == Init /\ [][Next]_vars

\* No other job is in the middle of its handler.
Alone(j) == \A k \in Jobs \ {j} : pc[k] \in {"idle", "done"}

NextLoop == \E j \in Jobs : (Alone(j) /\ JobStep(j)) \/ DeadlineElapses(j)

\* Jobs as handlers of one event loop: send_email has no suspension point, so
\* a handler runs to its return before the next one starts; time passes.
SpecLoop == Init /\ [][NextLoop]_vars

-----------------------------------------------------------------------------
(* Properties *)

Has(d, k) == k \in DOMAIN d

Range(q) == { q[i] : i \in DOMAIN q }

\* q ends with the sequence t.
EndsWith(q, t) ==
    /\ Len(q) >= Len(t)
    /\ \A i \in DOMAIN t : q[Len(q) - Len(t) + i] = t[i]

Started(j) == req[j] # {}

Finished(j) == pc[j] = "done"

\* The proxy the job's request names.
OwnProxy(j) == The(req[j]).proxyConfig

\* C1: a job's SMTP connection is routed by the job's own configuration only:
\* logs with connectionType "direct" go with a connection made without any
\* proxy, logs with connectionType "proxy" with one made through the job's own
\* proxyConfig, whatever the other jobs do.
C1_RoutingFollowsOwnConfig ==
    \A j \in Jobs :
        connRoute[j] # {} =>
            /\ log_entry[j]["connectionType"] = "direct" => The(connRoute[j]) = {}
            /\ log_entry[j]["connectionType"] = "proxy" => The(connRoute[j]) = OwnProxy(j)

\* C2: on every exit path of send_email after the transport was opened, the
\* transport is closed before the job returns its result: no finished job and
\* no job with a result has an open transport.
C2_TransportClosedOnExit ==
    \A j \in Jobs :
        (Finished(j) \/ result[j] # {}) => server[j] # "open"

\* A job that opened its transport, failed, and whose QUIT failed as well, has
\* returned.
C2_Witness ==
    \E j \in Jobs :
        /\ Finished(j)
        /\ server[j] = "closed"
        /\ ~The(result[j]).success
        /\ lastReply[j] = "fail"

\* C3: when the overall deadline elapsed while the job was in flight, the job
\* ends with a DeadlineExceeded outcome (HTTP 504), not with a success:true or
\* success:false result, and its transport is closed.
C3_DeadlineExceededReported ==
    \A j \in Jobs :
        (Finished(j) /\ deadlinePassed[j]) =>
            /\ server[j] # "open"
            /\ ~Has(The(result[j]), "success")
            /\ Has(The(result[j]), "status")
            /\ The(result[j])["status"] = 504

\* C4: when proxy resolution fails, the logs hold proxyError,
\* fallbackToDirect=true and connectionType "direct", the SMTP connection is
\* made without a proxy, and a job whose SMTP stages are all accepted ends
\* with success:true.
C4_FallbackToDirect ==
    \A j \in Jobs :
        /\ (pc[j] = "msgid" /\ "get_proxy_ip" \in Range(ops[j]) /\ ~use_proxy[j])
              => Has(log_entry[j], "fallbackToDirect")
        /\ Has(log_entry[j], "fallbackToDirect") =>
              /\ Has(log_entry[j], "proxyError")
              /\ log_entry[j]["fallbackToDirect"] = TRUE
              /\ log_entry[j]["connectionType"] = "direct"
              /\ connRoute[j] # {} => The(connRoute[j]) = {}
              /\ (Finished(j) /\ sent[j]) => The(result[j]).success

\* C5: the afterProxyIp of the logs is the egress address of the job's proxy,
\* whichever method of get_proxy_ip produced it.
C5_AfterProxyIpIsEgress ==
    \A j \in Jobs :
        Has(log_entry[j], "afterProxyIp") =>
            log_entry[j]["afterProxyIp"] = EgressAddr(The(OwnProxy(j)))

\* C6: a job with no proxy configured (proxyConfig absent or with an empty
\* host) has connectionType "direct", no proxy host or port and none of
\* afterProxyIp, proxyMethodsUsed, proxyUsed, proxyError, fallbackToDirect in
\* its logs, and never invokes get_proxy_ip.
C6_NoProxyNoProxyFields ==
    \A j \in Jobs :
        (Started(j) /\ ~ProxyConfigured(The(req[j]))) =>
            /\ log_entry[j]["connectionType"] = "direct"
            /\ log_entry[j]["proxyConfig"].host \in { {}, {""} }
            /\ log_entry[j]["proxyConfig"].port = {}
            /\ DOMAIN log_entry[j] \cap
                 {"afterProxyIp", "proxyMethodsUsed", "proxyUsed", "proxyError",
                  "fallbackToDirect"} = {}
            /\ "get_proxy_ip" \notin Range(ops[j])

\* C7: when login is rejected, sendmail is never invoked, and the job returns
\* success:false with the rejection text as error, no messageId, and logs
\* with that text as smtpError and finalOutcome "error".
C7_LoginRejected ==
    \A j \in Jobs :
        /\ exc[j] = {"login rejected"} => "sendmail" \notin Range(ops[j])
        /\ (Finished(j) /\ EndsWith(ops[j], << "login", "quit" >>)) =>
              LET r == The(result[j])
              IN /\ ~r.success
                 /\ Has(r, "error") /\ r.error = "login rejected"
                 /\ ~Has(r, "messageId")
                 /\ Has(r.logs, "smtpError") /\ r.logs["smtpError"] = r.error
                 /\ r.logs["finalOutcome"] = "error"
                 /\ "sendmail" \notin Range(ops[j])

\* A job whose login was rejected has returned.
C7_Witness ==
    \E j \in Jobs :
        /\ Finished(j)
        /\ EndsWith(ops[j], << "login", "quit" >>)
        /\ The(result[j]).error = "login rejected"

\* C8: a result has a messageId exactly when sendmail returned without error;
\* then success is true, there is no error field and the messageId is
\* <uuid>@<smtpConfig.host>; a success:false result has an error and no
\* messageId. The identifier is generated once per job, before the connection
\* is opened.
C8_MessageIdIffSent ==
    \A j \in Jobs :
        /\ uuidCount[j] <= 1
        /\ "connect" \in Range(ops[j]) => uuidCount[j] = 1
        /\ result[j] # {} =>
              LET r == The(result[j])
              IN /\ Has(r, "messageId") <=> sent[j]
                 /\ Has(r, "messageId") =>
                       /\ r.success
                       /\ ~Has(r, "error")
                       /\ r.messageId = NewMessageId(j, 1)
                       /\ r.messageId.host = SmtpHost
                 /\ ~r.success => (Has(r, "error") /\ ~Has(r, "messageId"))

\* One job returned a messageId and another job, whose sendmail failed, none.
C8_Witness ==
    /\ \E j \in Jobs : Finished(j) /\ sent[j] /\ Has(The(result[j]), "messageId")
    /\ \E j \in Jobs :
          /\ Finished(j)
          /\ EndsWith(ops[j], << "sendmail", "quit" >>)
          /\ ~sent[j]
          /\ ~The(result[j]).success

\* The job's NOOP probe failed.
VerifyFailed(j) ==
    Has(log_entry[j], "connectionVerified") /\ ~log_entry[j]["connectionVerified"]

\* C9: a failed NOOP probe is recorded (connectionVerified=false with
\* verifyError) and the session goes on to login and, when login succeeds, to
\* sendmail; the verify failure alone never gives a success:false result.
C9_VerifyFailureNotFatal ==
    \A j \in Jobs :
        VerifyFailed(j) =>
            /\ Has(log_entry[j], "verifyError")
            /\ pc[j] = "login" \/ "login" \in Range(ops[j])
            /\ Finished(j) =>
                  LET r == The(result[j])
                  IN /\ ~r.success => r.error \in {"login rejected", "sendmail failed"}
                     /\ (~r.success /\ r.error = "login rejected")
                           \/ "sendmail" \in Range(ops[j])

\* A job whose NOOP probe failed has returned success:true.
C9_Witness ==
    \E j \in Jobs :
        /\ Finished(j)
        /\ VerifyFailed(j)
        /\ The(result[j]).success
        /\ sent[j]

\* The shape of the two dicts send_email returns.
WellFormed(r) ==
    /\ Has(r, "success") /\ Has(r, "logs")
    /\ r.success => (Has(r, "messageId") /\ ~Has(r, "error"))
    /\ ~r.success => Has(r, "error")

\* C10: no fault of the proxy stage or of an SMTP stage leaves send_email: a
\* job in flight can always take its next step, it has no result before it
\* returns, and when it has returned no exception is in flight and its one
\* result is well formed and carries the job's logs.
C10_FaultsBecomeResults ==
    \A j \in Jobs :
        /\ pc[j] \notin {"idle", "done"} => (result[j] = {} /\ ENABLED JobStep(j))
        /\ Finished(j) =>
              /\ exc[j] = {}
              /\ Cardinality(result[j]) = 1
              /\ WellFormed(The(result[j]))
              /\ The(result[j]).logs = log_entry[j]

\* A job whose proxy resolution failed and whose SMTP connect failed as well has
\* returned.
C10_Witness ==
    \E j \in Jobs :
        /\ Finished(j)
        /\ Has(log_entry[j], "fallbackToDirect")
        /\ ~The(result[j]).success
        /\ The(result[j]).error = "connect failed"

\* The job's request asks for STARTTLS: secure is true and the port is 587.
StartTlsRequired(j) ==
    The(req[j]).smtpConfig.secure /\ The(req[j]).smtpConfig.port = StartTlsPort

\* C11: STARTTLS is issued only when secure is true and the port is 587, and
\* in every such session that gets as far as NOOP; the operation after a
\* STARTTLS is a second EHLO, or QUIT when STARTTLS failed; a job whose
\* STARTTLS failed never invokes login and returns success:false.
C11_StartTlsOnlyOn587 ==
    \A j \in Jobs :
        /\ "starttls" \in Range(ops[j]) => StartTlsRequired(j)
        /\ "noop" \in Range(ops[j]) =>
              ("starttls" \in Range(ops[j]) <=> StartTlsRequired(j))
        /\ pc[j] = "ehlo2" => (ops[j][Len(ops[j])] = "starttls" /\ exc[j] = {})
        /\ \A i \in DOMAIN ops[j] :
              (ops[j][i] = "starttls" /\ i < Len(ops[j])) =>
                  \/ ops[j][i + 1] = "ehlo"
                  \/ /\ ops[j][i + 1] = "quit"
                     /\ "login" \notin Range(ops[j])
                     /\ exc[j] = {"starttls failed"} \/ Finished(j)
        /\ exc[j] = {"starttls failed"} => "login" \notin Range(ops[j])
        /\ (Finished(j) /\ EndsWith(ops[j], << "starttls", "quit" >>)) =>
              /\ ~The(result[j]).success
              /\ The(result[j]).error = "starttls failed"
              /\ "login" \notin Range(ops[j])

\* A job whose required STARTTLS failed has returned.
C11_Witness ==
    \E j \in Jobs :
        /\ Finished(j)
        /\ StartTlsRequired(j)
        /\ EndsWith(ops[j], << "starttls", "quit" >>)
        /\ ~The(result[j]).success

\* C12: when the peer rejects EHLO, the next SMTP command of the session is
\* HELO: no later stage (STARTTLS, NOOP, login) is attempted before it.
C12_HeloAfterRejectedEhlo ==
    \A j \in Jobs :
        lastReply[j] = "rejected" =>
            /\ pc[j] = "helo"
            /\ pc[j] \notin {"starttls", "noop", "login"}

\* C13: when sendmail succeeded and the closing QUIT fails, the failure is
\* swallowed: the job returns success:true with a messageId, and its logs
\* carry finalOutcome = "success" and smtpSuccess = TRUE and no smtpError.
C13_QuitFailureSwallowed ==
    \A j \in Jobs :
        (Finished(j) /\ sent[j] /\ lastReply[j] = "fail") =>
            LET r == The(result[j])
            IN /\ r.success
               /\ Has(r, "messageId")
               /\ ~Has(r, "error")
               /\ Has(r.logs, "finalOutcome") /\ r.logs.finalOutcome = "success"
               /\ Has(r.logs, "smtpSuccess") /\ r.logs.smtpSuccess = TRUE
               /\ ~Has(r.logs, "smtpError")
               /\ log_entry[j] = r.logs

\* A job has returned after a successful sendmail and a failed QUIT.
C13_Witness ==
    \E j \in Jobs :
        /\ Finished(j)
        /\ sent[j]
        /\ EndsWith(ops[j], << "sendmail", "quit" >>)
        /\ lastReply[j] = "fail"
        /\ The(result[j]).success

\* Every key of log l is a key of log m with the same value.
Extends(m, l) == \A k \in DOMAIN l : k \in DOMAIN m /\ m[k] = l[k]

\* C14: a job's log_entry is append-only: no step removes a key that has a
\* value or gives it a different value; and the logs a job returns are
\* exactly the entries it accumulated.
C14_LogAppendOnly ==
    /\ [][\A j \in Jobs : Extends(log_entry'[j], log_entry[j])]_vars
    /\ [](\A j \in Jobs : Finished(j) => The(result[j]).logs = log_entry[j])

\* A job that probed its proxy, fell back to direct, failed the NOOP probe and
\* was refused at login has returned: its log was written by every stage.
C14_Witness ==
    \E j \in Jobs :
        /\ Finished(j)
        /\ Has(log_entry[j], "fallbackToDirect")
        /\ Has(log_entry[j], "verifyError")
        /\ Has(log_entry[j], "smtpError")
        /\ Extends(log_entry[j], InitialLog(The(req[j])))

\* C15: once every job that started has finished, whatever the interleaving of
\* proxy_context entries and exits was, socket.socket is the original socket
\* class again and no default proxy is set.
C15_GlobalsRestored ==
    (\A j \in Jobs : Finished(j)) => (sockFactory = "orig" /\ defaultProxy = {})

\* The SMTP operations the job invoked, in order.
SmtpOps(j) == SelectSeq(ops[j], LAMBDA o : o # "get_proxy_ip")

\* The operations of a complete session before QUIT, for request r.
FullSession(r) ==
    IF r.smtpConfig.secure /\ r.smtpConfig.port = StartTlsPort
    THEN << "connect", "ehlo", "starttls", "ehlo", "noop", "login", "sendmail" >>
    ELSE << "connect", "ehlo", "noop", "login", "sendmail" >>

\* Number of occurrences of operation o in sequence q.
Count(q, o) == Cardinality({ i \in DOMAIN q : q[i] = o })

\* C16: a job's SMTP operations are a prefix of connect, EHLO, [STARTTLS,
\* EHLO], NOOP, login, sendmail, closed by QUIT only on an opened connection;
\* after a fatal error nothing but QUIT follows; sendmail is invoked at most
\* once, and exactly once in a job that returns success:true; QUIT is
\* attempted exactly once in every finished job whose connection was opened
\* and never in one whose connection was not.
C16_SessionOrder ==
    \A j \in Jobs :
        Started(j) =>
            LET full == FullSession(The(req[j]))
                done == SmtpOps(j)
                body == IF "quit" \in Range(done)
                        THEN SubSeq(done, 1, Len(done) - 1) ELSE done
            IN /\ Len(body) <= Len(full)
               /\ body = SubSeq(full, 1, Len(body))
               /\ Count(done, "quit") <= 1
               /\ Count(done, "sendmail") <= 1
               /\ "quit" \in Range(done) =>
                     /\ done[Len(done)] = "quit"
                     /\ server[j] = "closed"
               /\ exc[j] # {} =>
                     pc[j] \in {"ctx_unset", "ctx_restore", "quit", "except"}
               /\ Finished(j) =>
                     /\ server[j] # "none" <=> Count(done, "quit") = 1
                     /\ The(result[j]).success =>
                           /\ done = full \o << "quit" >>
                           /\ Count(done, "sendmail") = 1
                           /\ sent[j]
                     /\ ~The(result[j]).success => ~sent[j]

\* A job with STARTTLS has returned success:true after the complete session.
C16_Witness ==
    \E j \in Jobs :
        /\ Finished(j)
        /\ The(result[j]).success
        /\ Len(SmtpOps(j)) = 8
        /\ SmtpOps(j)[3] = "starttls"
        /\ SmtpOps(j)[8] = "quit"

\* C17: when proxy resolution succeeded, the logs hold connectionType "proxy",
\* proxyUsed = TRUE and afterProxyIp and never fallbackToDirect; the SMTP
\* connection is attempted once and only through the job's proxy; and when
\* that connect fails the job returns success:false without a second, direct
\* connect.
C17_ProxyOnlyNoFallback ==
    \A j \in Jobs :
        (Has(log_entry[j], "connectionType") /\ log_entry[j]["connectionType"] = "proxy") =>
            /\ Has(log_entry[j], "proxyUsed") /\ log_entry[j]["proxyUsed"] = TRUE
            /\ Has(log_entry[j], "afterProxyIp")
            /\ ~Has(log_entry[j], "fallbackToDirect")
            /\ Count(ops[j], "connect") <= 1
            /\ (Finished(j) /\ SmtpOps(j) = << "connect" >>) => ~The(result[j]).success
            /\ connRoute[j] # {} => The(connRoute[j]) = OwnProxy(j)

\* The probes of a get_proxy_ip call in which every method fails: method 1,
\* then each external service in turn, then method 3.
AllProbes ==
    << "smtp_peername" >> \o [i \in 1 .. NumServices |-> "external_service"]
        \o << "local_socket" >>

\* C18: get_proxy_ip tries smtp_peername, external_service and local_socket in
\* that order, a later method only while no earlier one produced an address;
\* it reports success exactly when a method produced an address, with
\* methodsUsed holding the one name of that method; and when all three fail it
\* returns success = FALSE with an error, not an exception.
C18_MethodOrder ==
    \A j \in Jobs :
        /\ Len(probes[j]) <= Len(AllProbes)
        /\ probes[j] = SubSeq(AllProbes, 1, Len(probes[j]))
        /\ pc[j] \in {"ext", "m3"} => (proxy_ip[j] = {} /\ methods_used[j] = << >>)
        /\ proxy_ip[j] # {} =>
              /\ methods_used[j] = << probes[j][Len(probes[j])] >>
              /\ pc[j] \in {"ctx_unset", "ctx_restore", "gp_ret"}
        /\ (proxy_ip[j] = {} /\ pc[j] \in {"ctx_unset", "ctx_restore", "gp_ret"}
                /\ ctxRet[j] = "probe") =>
              (probes[j] = AllProbes /\ methods_used[j] = << >>)
        /\ pc[j] = "gp_ret" =>
              LET info == ProxyIpInfo(proxy_ip[j], methods_used[j])
              IN /\ exc[j] = {}
                 /\ info.success <=> proxy_ip[j] # {}
                 /\ info.success =>
                       /\ Len(info.methodsUsed) = 1
                       /\ info.methodsUsed[1] = probes[j][Len(probes[j])]
                 /\ ~info.success => (Has(info, "error") /\ probes[j] = AllProbes)

\* get_proxy_ip is about to return an address found by the third method, after
\* the first method and every external service failed.
C18_Witness ==
    \E j \in Jobs :
        /\ pc[j] = "gp_ret"
        /\ probes[j] = AllProbes
        /\ proxy_ip[j] # {}
        /\ methods_used[j] = << "local_socket" >>

====
